---- MODULE Spec2Model ----
(***************************************************************************)
(* Model of src/src/cli/main.py: main() and process_data().                *)
(* Text (lines, fields, keys, JSON output) is a sequence of one-character  *)
(* strings.  A dict is a sequence of <<key, value>> pairs in insertion     *)
(* order, as Python dicts are.                                             *)
(***************************************************************************)
EXTENDS Integers, Sequences, FiniteSets, TLC

(* ------------------------------ bounds --------------------------------- *)
\* longest export: number of download ids in the export document
MaxDownloads == 2
\* longest response body of one download, header line included
MaxLines == 3
\* longest line handed to the row parser under ParseSpec
MaxLineLen == 8

(* ------------------------- program constants --------------------------- *)
\* main.py:145  if len(row) != 4
NumFields == 4
\* main.py:200  return 0
OkReturn == 0
\* main.py:204  return 255
ErrReturn == 255
\* rc before main has returned
NoReturn == -1

(* ------------------------------- text ---------------------------------- *)
NL == "\n"
SP == " "
COMMA == ","

\* str.strip() with no argument removes these (the ones the alphabet has)
IsSpace(c) == c \in {SP, NL}

RECURSIVE LStrip(_)
LStrip(s) == IF s # <<>> /\ IsSpace(Head(s)) THEN LStrip(Tail(s)) ELSE s

RECURSIVE RStrip(_)
RStrip(s) ==
    IF s # <<>> /\ IsSpace(s[Len(s)]) THEN RStrip(SubSeq(s, 1, Len(s) - 1)) ELSE s

\* line.decode("utf-8").strip()
Strip(s) == RStrip(LStrip(s))

RECURSIVE SplitFrom(_, _)
SplitFrom(s, cur) ==
    IF s = <<>> THEN <<cur>>
    ELSE IF Head(s) = COMMA THEN <<cur>> \o SplitFrom(Tail(s), <<>>)
    ELSE SplitFrom(Tail(s), Append(cur, Head(s)))

\* line_str.split(",")
Split(s) == SplitFrom(s, <<>>)

RECURSIVE Join(_)
\* ",".join(fields): builds the input lines
Join(fs) ==
    IF Len(fs) = 0 THEN <<>>
    ELSE IF Len(fs) = 1 THEN fs[1]
    ELSE fs[1] \o <<COMMA>> \o Join(Tail(fs))

(* ------------------------------- dicts --------------------------------- *)
Keys(d) == {d[i][1] : i \in DOMAIN d}
Has(d, k) == k \in Keys(d)
Idx(d, k) == CHOOSE i \in DOMAIN d : d[i][1] = k
Get(d, k) == d[Idx(d, k)][2]
\* d[k] = v
Put(d, k, v) ==
    IF Has(d, k) THEN [d EXCEPT ![Idx(d, k)] = <<k, v>>] ELSE Append(d, <<k, v>>)
\* defaultdict.__getitem__: a missing key reads as the factory's value
GetOrDefault(d, k, dflt) == IF Has(d, k) THEN Get(d, k) ELSE dflt

\* defaultdict(int): d[k] += 1, "first occurrence starts at 0" variant
IncrementFromZero(d, k) ==
    IF Has(d, k) THEN Put(d, k, Get(d, k) + 1) ELSE Put(d, k, 0)
\* d[k] = 1 instead of d[k] += 1
IncrementAssign(d, k) == Put(d, k, 1)
\* defaultdict(int): d[k] += 1
Increment(d, k) == Put(d, k, GetOrDefault(d, k, 0) + 1)

\* total_counts[event_type] += 2
IncTotalTwice(tc, t) == Increment(Increment(tc, t), t)
\* main.py:154  total_counts[event_type] += 1
IncTotal(tc, t) == Increment(tc, t)

\* main.py:153  patient_counts[patient_id][event_type] += 1
IncPatient(pcs, p, t) == Put(pcs, p, Increment(GetOrDefault(pcs, p, <<>>), t))

(* ---------------------------- row parser ------------------------------- *)
\* trims every field after the split
ParseRowTrimFields(line) ==
    LET line_str == Strip(line)
        row == Split(line_str)
    IN  IF line_str = <<>> THEN [kind |-> "blank", row |-> <<>>]
        ELSE IF Len(row) # NumFields THEN [kind |-> "malformed", row |-> row]
        ELSE [kind |-> "record", row |-> [i \in DOMAIN row |-> Strip(row[i])]]
\* if len(row) > 4: a short row is accepted, its missing fields empty
ParseRowLenient(line) ==
    LET line_str == Strip(line)
        row == Split(line_str)
    IN  IF line_str = <<>> THEN [kind |-> "blank", row |-> <<>>]
        ELSE IF Len(row) > NumFields THEN [kind |-> "malformed", row |-> row]
        ELSE [kind |-> "record",
              row |-> row \o [i \in 1..(NumFields - Len(row)) |-> <<>>]]
\* main.py:141-147
ParseRow(line) ==
    LET line_str == Strip(line)
        row == Split(line_str)
    IN  IF line_str = <<>> THEN [kind |-> "blank", row |-> <<>>]
        ELSE IF Len(row) # NumFields THEN [kind |-> "malformed", row |-> row]
        ELSE [kind |-> "record", row |-> row]

(* --------------------------- JSON emission ----------------------------- *)
Digit(n) ==
    CASE n = 0 -> "0" [] n = 1 -> "1" [] n = 2 -> "2" [] n = 3 -> "3"
      [] n = 4 -> "4" [] n = 5 -> "5" [] n = 6 -> "6" [] n = 7 -> "7"
      [] n = 8 -> "8" [] n = 9 -> "9"

RECURSIVE IntText(_)
IntText(n) == IF n < 10 THEN <<Digit(n)>> ELSE IntText(n \div 10) \o <<Digit(n % 10)>>

Indent(level) == [i \in 1..(2 * level) |-> SP]
Quoted(s) == <<"\"">> \o s \o <<"\"">>

RECURSIVE CountItems(_, _)
\* the "key": n items of a dict of ints, one per line
CountItems(d, level) ==
    IF d = <<>> THEN <<>>
    ELSE Indent(level) \o Quoted(d[1][1]) \o <<":", SP>> \o IntText(d[1][2])
         \o (IF Len(d) > 1 THEN <<COMMA>> ELSE <<>>) \o <<NL>>
         \o CountItems(Tail(d), level)

CountsText(d, level) ==
    IF d = <<>> THEN <<"{", "}">>
    ELSE <<"{", NL>> \o CountItems(d, level + 1) \o Indent(level) \o <<"}">>

RECURSIVE PatientItems(_, _)
PatientItems(pcs, level) ==
    IF pcs = <<>> THEN <<>>
    ELSE Indent(level) \o Quoted(pcs[1][1]) \o <<":", SP>> \o CountsText(pcs[1][2], level)
         \o (IF Len(pcs) > 1 THEN <<COMMA>> ELSE <<>>) \o <<NL>>
         \o PatientItems(Tail(pcs), level)

PatientsText(pcs, level) ==
    IF pcs = <<>> THEN <<"{", "}">>
    ELSE <<"{", NL>> \o PatientItems(pcs, level + 1) \o Indent(level) \o <<"}">>

KeyPatients == <<"p", "a", "t", "i", "e", "n", "t", "s">>
KeyTotals == <<"t", "o", "t", "a", "l", "s">>

\* json.dumps(output, indent=2); the keys of the model need no escaping
Dumps(out) ==
    <<"{", NL>>
    \o Indent(1) \o Quoted(KeyPatients) \o <<":", SP>> \o PatientsText(out.patients, 1)
    \o <<COMMA, NL>>
    \o Indent(1) \o Quoted(KeyTotals) \o <<":", SP>> \o CountsText(out.totals, 1)
    \o <<NL, "}">>

\* main.py:164-171
MakeOutput(pcs, tc) == [patients |-> pcs, totals |-> tc]
NoOutput == [patients |-> <<>>, totals |-> <<>>]

(* ------------------------------ inputs --------------------------------- *)
A == <<"a">>
B == <<"b">>
C == <<"c">>
X == <<"x">>
T == <<"t">>
V == <<"v">>

\* the lines a download body is made of
Lines ==
    { Join(<<A, X, T, V>>) \o <<NL>>,              \* a valid row
      <<SP>> \o Join(<<B, X, T, V>>) \o <<SP, NL>>, \* a valid row, padded
      Join(<<C, T>>) \o <<NL>>,                    \* two fields
      <<NL>> }                                     \* blank

RECURSIVE SeqsUpTo(_, _)
SeqsUpTo(S, n) ==
    IF n = 0 THEN {<<>>}
    ELSE LET shorter == SeqsUpTo(S, n - 1)
         IN  shorter \cup {Append(s, x) : s \in {t \in shorter : Len(t) = n - 1}, x \in S}

Bodies == SeqsUpTo(Lines, MaxLines)

AllIds == <<"d1", "d2", "d3", "d4">>
IdLists == {SubSeq(AllIds, 1, n) : n \in 0..MaxDownloads}

\* the body of the export-metadata response
ExportBodies ==
    { [json |-> FALSE, hasData |-> FALSE, hasIds |-> FALSE, ids |-> <<>>],
      [json |-> TRUE, hasData |-> FALSE, hasIds |-> FALSE, ids |-> <<>>],
      [json |-> TRUE, hasData |-> TRUE, hasIds |-> FALSE, ids |-> <<>>] }
    \cup {[json |-> TRUE, hasData |-> TRUE, hasIds |-> TRUE, ids |-> l] : l \in IdLists}

None == [isNone |-> TRUE, val |-> <<>>]
Some(p) == [isNone |-> FALSE, val |-> p]
\* the values --output can take: absent, the empty string, a path
OutputArgs == {None, Some(<<>>), Some(<<"o">>)}
\* Python truth value of  str | None
Truthy(o) == ~o.isNone /\ o.val # <<>>

OldContent == <<"o", "l", "d">>

Alphabet == {"a", COMMA, SP}
AllLines == SeqsUpTo(Alphabet, MaxLineLen)

(* ------------------------------ state ---------------------------------- *)
VARIABLES
    pc,             \* position of main / process_data
    output_file,    \* opts.output
    export_body,    \* body of the export-metadata response
    download_ids,   \* main.py:123
    di,             \* 1-based position of the for loop of main.py:131
    open,           \* HTTP responses that are open (inside their with block)
    stream,         \* lines of the open data response not read yet
    patient_counts, \* main.py:127
    total_counts,   \* main.py:128
    row,            \* main.py:144, the last split line
    row_count,      \* main.py:139
    output,         \* main.py:164
    stdout,         \* text written to standard output
    file,           \* the file at the output path
    err,            \* the exception in flight
    log,            \* errors logged by main
    rc,             \* value returned by main
    requests,       \* history: download ids requested, in request order
    body,           \* history: body the server sent for the current download
    offered,        \* history: lines of the current download given to the row parser
    rows,           \* history: the valid rows among the data lines (after the header) of all bodies served, as a bag of <<patient, type>>
    prints,         \* history: number of writes to standard output
    fileOpens       \* history: number of times the output file was opened

vars == <<pc, output_file, export_body, download_ids, di, open, stream,
          patient_counts, total_counts, row, row_count, output, stdout, file,
          err, log, rc, requests, body, offered, rows, prints, fileOpens>>

ExportResp == [kind |-> "export", n |-> 0]
\* for an exception raised outside every with block
NoResp == [kind |-> "none", n |-> 0]
DataResp(i) == [kind |-> "data", n |-> i]
NoErr == "none"

\* the classes main.py:201 catches: subclasses of Exception
ExceptionKinds == {"URLError", "JSONDecodeError", "KeyError", "OSError"}
\* except URLError
CatchesNetworkOnly(kind) == kind = "URLError"
\* main.py:201  except Exception
Catches(kind) == kind \in ExceptionKinds

\* the response is left open
CloseNothing(o, r) == o
\* end of a with block, main.py:119 and main.py:136
Close(o, r) == o \ {r}

\* the first line is dropped only when it is not a 4-field row
SkipHeaderIfNotRow(s) ==
    IF s # <<>> /\ ParseRow(Head(s)).kind # "record" THEN Tail(s) ELSE s
\* main.py:138  response.readline(): at end of stream it returns b""
SkipHeader(s) == IF s = <<>> THEN <<>> ELSE Tail(s)

\* the loop stops one download early
LoopDoneEarly(i, ids) == i >= Len(ids)
\* main.py:131  the for loop is exhausted
LoopDone(i, ids) == i > Len(ids)

\* open(output_file, "a")
OpenAppend(f) == [exists |-> TRUE, content |-> f.content]
\* main.py:176  open(output_file, "w")
OpenTruncate(f) == [exists |-> TRUE, content |-> <<>>]

\* main.py:174  if output_file
WritesFile(o) == Truthy(o)

NoBody == [json |-> FALSE, hasData |-> FALSE, hasIds |-> FALSE, ids |-> <<>>]

\* the <<patient_id, event_type>> of a line that is a valid row
PairOf(line) == <<ParseRow(line).row[1], ParseRow(line).row[3]>>
ValidAt(ls) == {i \in DOMAIN ls : ParseRow(ls[i]).kind = "record"}
\* a bag of pairs: pair |-> number of occurrences
EmptyBag == [pr \in {} |-> 0]
AddAll(bag, ls) ==
    [pr \in DOMAIN bag \cup {PairOf(ls[i]) : i \in ValidAt(ls)} |->
        (IF pr \in DOMAIN bag THEN bag[pr] ELSE 0)
        + Cardinality({i \in ValidAt(ls) : PairOf(ls[i]) = pr})]

Init ==
    /\ pc = "start"
    /\ output_file = None
    /\ export_body = NoBody
    /\ download_ids = <<>>
    /\ di = 0
    /\ open = {}
    /\ stream = <<>>
    /\ patient_counts = <<>>
    /\ total_counts = <<>>
    /\ row = <<>>
    /\ row_count = 0
    /\ output = NoOutput
    /\ stdout = <<>>
    /\ file = [exists |-> TRUE, content |-> OldContent]
    /\ err = NoErr
    /\ log = <<>>
    /\ rc = NoReturn
    /\ requests = <<>>
    /\ body = <<>>
    /\ offered = <<>>
    /\ rows = EmptyBag
    /\ prints = 0
    /\ fileOpens = 0

\* an exception leaves every enclosing with block (closing its response),
\* discards the frame of process_data with its locals, and reaches the try of
\* main
Raise(kind, resp) ==
    /\ pc' = "except"
    /\ err' = kind
    /\ open' = Close(open, resp)
    /\ export_body' = NoBody
    /\ download_ids' = <<>>
    /\ di' = 0
    /\ stream' = <<>>
    /\ patient_counts' = <<>>
    /\ total_counts' = <<>>
    /\ row' = <<>>
    /\ row_count' = 0
    /\ output' = NoOutput
    /\ body' = <<>>
    /\ offered' = <<>>

\* main.py:191  get_opts(): argparse exits (SystemExit) on --version or a bad
\* argument, otherwise returns the options
GetOpts ==
    /\ pc = "start"
    /\ \/ /\ Raise("SystemExit", NoResp)
          /\ UNCHANGED output_file
       \/ /\ \E o \in OutputArgs : output_file' = o
          /\ pc' = "resolve"
          /\ UNCHANGED <<err, open, export_body, download_ids, di, stream,
                         patient_counts, total_counts, row, row_count, output,
                         body, offered>>
    /\ UNCHANGED <<stdout, file, log, rc, requests, rows, prints, fileOpens>>

\* main.py:119  urlopen(export_url)
OpenExport ==
    /\ pc = "resolve"
    /\ \/ Raise("URLError", NoResp)
       \/ /\ \E b \in ExportBodies : export_body' = b
          /\ open' = open \cup {ExportResp}
          /\ pc' = "read_export"
          /\ UNCHANGED <<err, download_ids, di, stream, patient_counts,
                         total_counts, row, row_count, output, body, offered>>
    /\ UNCHANGED <<output_file, stdout, file, log, rc, requests, rows, prints,
                   fileOpens>>

\* main.py:120-122  json.loads(response.read().decode("utf-8"))["data"], then
\* the end of the with block
ReadExport ==
    /\ pc = "read_export"
    /\ \/ Raise("URLError", ExportResp)
       \/ /\ ~export_body.json
          /\ Raise("JSONDecodeError", ExportResp)
       \/ /\ export_body.json /\ ~export_body.hasData
          /\ Raise("KeyError", ExportResp)
       \/ /\ export_body.json /\ export_body.hasData
          /\ open' = Close(open, ExportResp)
          /\ pc' = "ids"
          /\ UNCHANGED <<err, export_body, download_ids, di, stream,
                         patient_counts, total_counts, row, row_count, output,
                         body, offered>>
    /\ UNCHANGED <<output_file, stdout, file, log, rc, requests, rows, prints,
                   fileOpens>>

\* main.py:123-128  export_data["download_ids"], then the counters are created
GetDownloadIds ==
    /\ pc = "ids"
    /\ \/ /\ ~export_body.hasIds
          /\ Raise("KeyError", NoResp)
       \/ /\ export_body.hasIds
          /\ download_ids' = export_body.ids
          /\ di' = 1
          /\ patient_counts' = <<>>
          /\ total_counts' = <<>>
          /\ pc' = "loop"
          /\ UNCHANGED <<err, open, export_body, stream, row, row_count, output,
                         body, offered>>
    /\ UNCHANGED <<output_file, stdout, file, log, rc, requests, rows, prints,
                   fileOpens>>

\* main.py:131-136  next download id, urlopen(data_url)
OpenData ==
    /\ pc = "loop"
    /\ ~LoopDone(di, download_ids)
    /\ requests' = Append(requests, download_ids[di])
    /\ \/ /\ Raise("URLError", NoResp)
          /\ UNCHANGED rows
       \/ /\ \E b \in Bodies :
                /\ stream' = b
                /\ body' = b
                /\ rows' = AddAll(rows, IF b = <<>> THEN <<>> ELSE Tail(b))
          /\ offered' = <<>>
          /\ open' = open \cup {DataResp(di)}
          /\ pc' = "header"
          /\ UNCHANGED <<err, export_body, download_ids, di, patient_counts,
                         total_counts, row, row_count, output>>
    /\ UNCHANGED <<output_file, stdout, file, log, rc, prints, fileOpens>>

\* main.py:138-139  response.readline(); row_count = 0
ReadHeader ==
    /\ pc = "header"
    /\ \/ Raise("URLError", DataResp(di))
       \/ /\ stream' = SkipHeader(stream)
          /\ row_count' = 0
          /\ pc' = "iter"
          /\ UNCHANGED <<err, open, export_body, download_ids, di,
                         patient_counts, total_counts, row, output, body, offered>>
    /\ UNCHANGED <<output_file, stdout, file, log, rc, requests, rows, prints,
                   fileOpens>>

\* main.py:140-155  one iteration of  for line in response
IterLine ==
    /\ pc = "iter"
    /\ stream # <<>>
    /\ LET line == Head(stream)
           parsed == ParseRow(line)
       IN  /\ stream' = Tail(stream)
           /\ offered' = Append(offered, line)
           /\ \/ /\ parsed.kind = "blank"
                 /\ UNCHANGED <<patient_counts, total_counts, row, row_count>>
              \/ /\ parsed.kind = "malformed"
                 /\ row' = parsed.row
                 /\ UNCHANGED <<patient_counts, total_counts, row_count>>
              \/ /\ parsed.kind = "record"
                 /\ row' = parsed.row
                 /\ patient_counts' = IncPatient(patient_counts, parsed.row[1], parsed.row[3])
                 /\ total_counts' = IncTotal(total_counts, parsed.row[3])
                 /\ row_count' = row_count + 1
    /\ UNCHANGED <<pc, output_file, export_body, download_ids, di, open, output,
                   stdout, file, err, log, rc, requests, body, rows, prints,
                   fileOpens>>

\* main.py:140  reading the response fails
IterFail ==
    /\ pc = "iter"
    /\ Raise("URLError", DataResp(di))
    /\ UNCHANGED <<output_file, stdout, file, log, rc, requests, rows, prints,
                   fileOpens>>

\* main.py:140,156  the response is exhausted: end of the with block, next id
EndStream ==
    /\ pc = "iter"
    /\ stream = <<>>
    /\ open' = Close(open, DataResp(di))
    /\ di' = di + 1
    /\ body' = <<>>
    /\ offered' = <<>>
    /\ pc' = "loop"
    /\ UNCHANGED <<output_file, export_body, download_ids, stream,
                   patient_counts, total_counts, row, row_count, output, stdout,
                   file, err, log, rc, requests, rows, prints, fileOpens>>

\* main.py:158-173  the loop is over: build output, print(json.dumps(...))
Emit ==
    /\ pc = "loop"
    /\ LoopDone(di, download_ids)
    /\ output' = MakeOutput(patient_counts, total_counts)
    /\ stdout' = stdout \o Dumps(output') \o <<NL>>
    /\ prints' = prints + 1
    /\ pc' = IF WritesFile(output_file) THEN "open_out" ELSE "return"
    /\ UNCHANGED <<output_file, export_body, download_ids, di, open, stream,
                   patient_counts, total_counts, row, row_count, file, err, log,
                   rc, requests, body, offered, rows, fileOpens>>

\* main.py:176  open(output_file, "w")
OpenOut ==
    /\ pc = "open_out"
    /\ \/ /\ Raise("OSError", NoResp)
          /\ UNCHANGED <<file, fileOpens>>
       \/ /\ file' = OpenTruncate(file)
          /\ fileOpens' = fileOpens + 1
          /\ pc' = "dump"
          /\ UNCHANGED <<err, open, export_body, download_ids, di, stream,
                         patient_counts, total_counts, row, row_count, output,
                         body, offered>>
    /\ UNCHANGED <<output_file, stdout, log, rc, requests, rows, prints>>

\* main.py:177  json.dump(output, f, indent=2), then the file is closed
DumpFile ==
    /\ pc = "dump"
    /\ file' = [file EXCEPT !.content = @ \o Dumps(output)]
    /\ pc' = "return"
    /\ UNCHANGED <<output_file, export_body, download_ids, di, open, stream,
                   patient_counts, total_counts, row, row_count, output, stdout,
                   err, log, rc, requests, body, offered, rows, prints, fileOpens>>

\* main.py:197-200  process_data returned
Return ==
    /\ pc = "return"
    /\ rc' = OkReturn
    /\ pc' = "done"
    /\ UNCHANGED <<output_file, export_body, download_ids, di, open, stream,
                   patient_counts, total_counts, row, row_count, output, stdout,
                   file, err, log, requests, body, offered, rows, prints, fileOpens>>

\* main.py:201-204  the except clause; what it does not catch leaves main
\* without a return value
Except ==
    /\ pc = "except"
    /\ \/ /\ Catches(err)
          /\ log' = Append(log, err)
          /\ rc' = ErrReturn
          /\ pc' = "done"
       \/ /\ ~Catches(err)
          /\ pc' = "exited"
          /\ UNCHANGED <<log, rc>>
    /\ UNCHANGED <<output_file, export_body, download_ids, di, open, stream,
                   patient_counts, total_counts, row, row_count, output, stdout,
                   file, err, requests, body, offered, rows, prints, fileOpens>>

Next ==
    \/ GetOpts
    \/ OpenExport
    \/ ReadExport
    \/ GetDownloadIds
    \/ OpenData
    \/ ReadHeader
    \/ IterLine
    \/ IterFail
    \/ EndStream
    \/ Emit
    \/ OpenOut
    \/ DumpFile
    \/ Return
    \/ Except

Spec == Init /\ [][Next]_vars

(* ----------------------- the row parser alone -------------------------- *)
\* One download whose header has been read and whose only data line is any
\* text over Alphabet; the single step hands that line to the row parser.
HeaderLine == <<"h", NL>>

InitParse ==
    /\ pc = "iter"
    /\ output_file = None
    /\ export_body = [json |-> TRUE, hasData |-> TRUE, hasIds |-> TRUE, ids |-> <<AllIds[1]>>]
    /\ download_ids = <<AllIds[1]>>
    /\ di = 1
    /\ open = {DataResp(1)}
    /\ \E line \in AllLines :
          /\ stream = <<line>>
          /\ body = <<HeaderLine, line>>
          /\ rows = AddAll(EmptyBag, <<line>>)
    /\ patient_counts = <<>>
    /\ total_counts = <<>>
    /\ row = <<>>
    /\ row_count = 0
    /\ output = NoOutput
    /\ stdout = <<>>
    /\ file = [exists |-> TRUE, content |-> OldContent]
    /\ err = NoErr
    /\ log = <<>>
    /\ rc = NoReturn
    /\ requests = <<AllIds[1]>>
    /\ offered = <<>>
    /\ prints = 0
    /\ fileOpens = 0

NextParse == IterLine

ParseSpec == InitParse /\ [][NextParse]_vars

(* ------------------------------ claims --------------------------------- *)
Emitted == pc \in {"open_out", "dump", "return"}

RECURSIVE SumOverPatients(_, _)
SumOverPatients(pcs, t) ==
    IF pcs = <<>> THEN 0
    ELSE GetOrDefault(pcs[1][2], t, 0) + SumOverPatients(Tail(pcs), t)

TypesOf(pcs, tc) == Keys(tc) \cup UNION {Keys(pcs[i][2]) : i \in DOMAIN pcs}

SumsAgree(pcs, tc) ==
    \A t \in TypesOf(pcs, tc) :
        /\ Has(tc, t)
        /\ Get(tc, t) = SumOverPatients(pcs, t)

\* C1: after every applied record, and in the emitted output, the total of
\* every event type equals the sum of that type's counts over all patients.
C1_TotalsAreSums ==
    /\ SumsAgree(patient_counts, total_counts)
    /\ SumsAgree(output.patients, output.totals)

\* two patients have been counted under one event type
C1_Witness ==
    /\ Emitted
    /\ \E t \in Keys(output.totals) :
          /\ Get(output.totals, t) >= 2
          /\ Cardinality({i \in DOMAIN output.patients : Has(output.patients[i][2], t)}) >= 2

\* the step hands the next line of the stream to the row parser
Offers(line) ==
    /\ pc = "iter"
    /\ stream # <<>>
    /\ line = Head(stream)
    /\ offered' = Append(offered, line)

IsMalformed(line) == Len(Split(line)) # NumFields

\* C2: a line whose comma-split field count is not 4 changes neither counter,
\* raises nothing and leaves the loop on the next line of the stream; a valid
\* row that comes after such a line in the same stream is counted.
C2_MalformedSkipped ==
    [][\A line \in Lines :
          /\ (Offers(line) /\ IsMalformed(line)) =>
                /\ patient_counts' = patient_counts
                /\ total_counts' = total_counts
                /\ row_count' = row_count
                /\ err' = NoErr
                /\ pc' = "iter"
                /\ stream' = Tail(stream)
          /\ (/\ Offers(line)
              /\ ~IsMalformed(line)
              /\ \E i \in DOMAIN offered : IsMalformed(offered[i])) =>
                /\ row_count' = row_count + 1
                /\ Get(total_counts', Split(line)[3])
                     = GetOrDefault(total_counts, Split(line)[3], 0) + 1
                /\ SumOverPatients(patient_counts', Split(line)[3])
                     = SumOverPatients(patient_counts, Split(line)[3]) + 1]_vars

\* a row has been counted after a row of two fields in the same stream
C2_Witness ==
    /\ pc = "iter"
    /\ Len(offered) = 2
    /\ Len(Split(offered[1])) = 2
    /\ ParseRow(offered[2]).kind = "record"
    /\ row_count = 1

\* number of served data lines that are rows of patient p and event type t
RowsOf(p, t) == IF <<p, t>> \in DOMAIN rows THEN rows[<<p, t>>] ELSE 0

ServedPatients == {pr[1] : pr \in DOMAIN rows}
ServedTypes == {pr[2] : pr \in DOMAIN rows}

EmptyResultText ==
    <<"{", NL,
      SP, SP, "\"", "p", "a", "t", "i", "e", "n", "t", "s", "\"", ":", SP, "{", "}", COMMA, NL,
      SP, SP, "\"", "t", "o", "t", "a", "l", "s", "\"", ":", SP, "{", "}", NL,
      "}", NL>>

\* C3: in the emitted result the count of every patient and event type is the
\* number of valid rows of that pair over the data lines of all downloads, a
\* pair without a row is absent, and an export without download ids gives
\* empty "patients" and "totals".
C3_CountsMerge ==
    Emitted =>
        /\ \A p \in ServedPatients \cup Keys(output.patients) :
           \A t \in ServedTypes \cup Keys(output.totals) :
              LET inner == GetOrDefault(output.patients, p, <<>>)
              IN  /\ GetOrDefault(inner, t, 0) = RowsOf(p, t)
                  /\ Has(inner, t) <=> RowsOf(p, t) > 0
        /\ \A p \in Keys(output.patients) : Get(output.patients, p) # <<>>
        /\ download_ids = <<>> => (output = NoOutput /\ stdout = EmptyResultText)

\* one pair has more rows than a single body can hold: its count was merged
\* over two downloads
C3_Witness ==
    /\ Emitted
    /\ \E i \in DOMAIN output.patients :
       \E j \in DOMAIN output.patients[i][2] : output.patients[i][2][j][2] = MaxLines

\* the comma-separated fields of the line as it came from the stream
RawFields(line) == Split(line)

FourNonEmptyFields(line) ==
    /\ Len(RawFields(line)) = NumFields
    /\ \A i \in 1..NumFields : RawFields(line)[i] # <<>>

\* C4 as claimed: a line of exactly 4 non-empty comma-separated fields yields
\* a record whose 4 fields, and so the two counter keys, are exactly the field
\* texts of the line.
C4_FieldsVerbatim ==
    (offered # <<>> /\ FourNonEmptyFields(offered[1])) =>
        /\ row_count = 1
        /\ row = RawFields(offered[1])
        /\ Keys(patient_counts) = {RawFields(offered[1])[1]}
        /\ Keys(total_counts) = {RawFields(offered[1])[3]}

\* C4 amended: a line of exactly 4 non-empty comma-separated fields yields a
\* record; its fields are those of the line after the line as a whole has been
\* trimmed, so the first field loses its leading whitespace and the last its
\* trailing whitespace, and the two middle fields are verbatim; the counter
\* keys are the first field so trimmed and the third field verbatim.
C4_FieldsOfTrimmedLine ==
    (offered # <<>> /\ FourNonEmptyFields(offered[1])) =>
        LET raw == RawFields(offered[1])
        IN  /\ row_count = 1
            /\ row = <<LStrip(raw[1]), raw[2], raw[3], RStrip(raw[4])>>
            /\ patient_counts = <<<<LStrip(raw[1]), <<<<raw[3], 1>>>>>>>>
            /\ total_counts = <<<<raw[3], 1>>>>

\* a record was made of a line whose first field begins with a blank and whose
\* second field contains one
C4_Witness ==
    /\ offered # <<>>
    /\ FourNonEmptyFields(offered[1])
    /\ Head(offered[1]) = SP
    /\ row_count = 1
    /\ row[1] # RawFields(offered[1])[1]

\* C5: main returns only at the end of the run; it returns 0 exactly when the
\* run completed without a failure; a failure of any stage goes to the handler
\* of main, which logs it and returns 255.
C5_ReturnCode ==
    /\ rc # NoReturn => pc = "done"
    /\ rc = OkReturn <=> (pc = "done" /\ err = NoErr)
    /\ err = NoErr => (pc = "done" => prints = 1)
    /\ err \in ExceptionKinds =>
          /\ pc \in {"except", "done"}
          /\ rc \in {NoReturn, ErrReturn}
          /\ pc = "except" => (rc = NoReturn /\ log = <<>>)
          /\ pc = "done" => (rc = ErrReturn /\ log = <<err>>)

\* the failure to open the output file has been logged and main returned 255
C5_Witness ==
    /\ pc = "done"
    /\ err = "OSError"
    /\ rc = ErrReturn
    /\ log = <<"OSError">>

C7_State ==
    /\ Cardinality(open) <= 1
    /\ pc = "read_export" => open = {ExportResp}
    /\ pc \in {"header", "iter"} => open = {DataResp(di)}
    /\ pc \notin {"read_export", "header", "iter"} => open = {}
    /\ (err = NoErr /\ pc \notin {"start", "resolve", "read_export", "ids"}) =>
          /\ Len(requests) <= Len(download_ids)
          /\ requests = SubSeq(download_ids, 1, Len(requests))
          /\ Len(requests) = (IF pc = "loop" THEN di - 1 ELSE IF Emitted \/ pc = "done" THEN Len(download_ids) ELSE di)

C7_Step ==
    requests' # requests =>
        /\ open = {}
        /\ pc = "loop"
        /\ requests' = Append(requests, download_ids[Len(requests) + 1])

\* C7: at most one response is open at any time; every data request is made
\* with no response open, for the list entry after the last one requested; a
\* failure leaves no response open; at emission every entry has been requested
\* exactly once, in list order.
C7_OneStreamInOrder == [](C7_State) /\ [][C7_Step]_vars

\* the second download is open, the first has been released
C7_Witness ==
    /\ pc = "iter"
    /\ di = 2
    /\ open = {DataResp(2)}
    /\ requests = <<AllIds[1], AllIds[2]>>

AllPositive(d) == \A i \in DOMAIN d : d[i][2] >= 1

WellFormedCounts(pcs, tc) ==
    /\ \A i \in DOMAIN pcs : pcs[i][2] # <<>> /\ AllPositive(pcs[i][2])
    /\ AllPositive(tc)
    /\ Keys(pcs) \subseteq ServedPatients
    /\ TypesOf(pcs, tc) \subseteq ServedTypes

\* C8: every patient key maps to a non-empty inner mapping, every count is at
\* least 1, and every patient and event-type key comes from a valid row.
C8_NoEmptyPatient ==
    /\ err = NoErr => WellFormedCounts(patient_counts, total_counts)
    /\ err = NoErr => WellFormedCounts(output.patients, output.totals)

\* a row was counted in a stream that also had a row of two fields and a
\* blank line
C8_Witness ==
    /\ pc = "iter"
    /\ patient_counts # <<>>
    /\ \E i \in DOMAIN offered : ParseRow(offered[i]).kind = "malformed"

DataLines(b) == IF b = <<>> THEN <<>> ELSE Tail(b)

\* C9: exactly the first line of a body is dropped, whatever it is; the lines
\* after it are given to the row parser once each, in order; an empty body is
\* read as no lines; only the lines given to the parser are counted.
C9_HeaderSkipped ==
    /\ pc = "header" => (stream = body /\ offered = <<>>)
    /\ pc = "iter" =>
          /\ offered \o stream = DataLines(body)
          /\ row_count = Cardinality({i \in DOMAIN offered : ParseRow(offered[i]).kind = "record"})

\* a body whose first line is a valid row has been read to its end, and that
\* row was not counted
C9_Witness ==
    /\ pc = "iter"
    /\ stream = <<>>
    /\ Len(body) = 2
    /\ ParseRow(body[1]).kind = "record"
    /\ ParseRow(body[2]).kind = "record"
    /\ row_count = 1

C10_State ==
    /\ prints <= 1
    /\ fileOpens <= prints
    /\ prints = 0 <=> stdout = <<>>
    /\ (err \in ExceptionKinds /\ err # "OSError") => (prints = 0 /\ fileOpens = 0)
    /\ err = "OSError" =>
          /\ prints = 1
          /\ fileOpens = 0
          /\ pc = "done" => rc = ErrReturn

C10_Step ==
    /\ stdout' # stdout =>
          /\ prints = 0
          /\ prints' = 1
          /\ pc = "loop"
          /\ open = {}
          /\ stream = <<>>
          /\ di = Len(download_ids) + 1
          /\ requests = download_ids
          /\ stdout' = Dumps(MakeOutput(patient_counts, total_counts)) \o <<NL>>
    /\ prints' # prints => stdout' # stdout
    /\ file' # file => prints = 1
    /\ fileOpens' # fileOpens => (prints = 1 /\ fileOpens = 0)

====
